---- MODULE Spec2Model ----
(***************************************************************************)
(* Model of main.py: the console workspace that integrates                 *)
(*     y' = y/x + x*cos(x),   exact solution y = x*sin(x) + 1              *)
(* with Euler, improved Euler and Runge-Kutta, plots the trajectories and  *)
(* runs the step-count sweep (gte_investigation) of every method.          *)
(*                                                                         *)
(* Numbers.  Python floats are modelled as fixed-point integers:           *)
(*   - abscissas (x0, x, step, k, x_prev) count units of 1/XScale;         *)
(*     XScale is divisible by 2, 4, 6 and by every step count 2..10, so    *)
(*     step/2, step/6 and (x - x0)/i are exact for the values a user can   *)
(*     enter here; with the default bounds pi and 4*pi the quotient        *)
(*     (x - x0)/i is rounded down to the grid;                             *)
(*   - ordinates (y, y', lte, gte) count units of 1/YScale, every product  *)
(*     and quotient being rounded down to that grid, as a float operation  *)
(*     rounds to its grid;                                                 *)
(*   - math.sin is Bhaskara's rational approximation on [0, pi], extended  *)
(*     by sin(t + pi) = -sin(t); math.cos(x) is sin(x + pi/2).             *)
(***************************************************************************)
EXTENDS Integers, Sequences, FiniteSets, TLC

VARIABLES
    X0, Y0, X, STEP,      \* UserWorkspace.X0, .Y0, .X, .STEP
    MAX_NUM_OF_STEPS,     \* UserWorkspace.MAX_NUM_OF_STEPS
    pc,                   \* position of the (single-threaded) program
    method,               \* the NumericalMethod object in use: 1 euler, 2 improved_euler, 3 runge_kutta
    i,                    \* loop variable of gte_investigation
    step,                 \* argument `step` of the current method_implementation call
    with_print,           \* argument of the current method_implementation call
    with_gte_max,         \* argument of the current method_implementation call
    k, x_prev, y_prev,    \* locals of exact_solution / method_implementation
    gte_arr,              \* local list of method_implementation
    exact_pts,            \* points scattered by exact_solution on solution_graph
    points,               \* per method: rows passed to supplement_graph / print_format
    samples,              \* per method: points scattered on gte_investigation_graph
    visited,              \* history: <<x, y, gte>> of every point of the current run, in any mode
    h_used                \* history: the step the integrator used in its calls of the current run

vars == <<X0, Y0, X, STEP, MAX_NUM_OF_STEPS, pc, method, i, step, with_print,
          with_gte_max, k, x_prev, y_prev, gte_arr, exact_pts, points, samples,
          visited, h_used>>

----------------------------------------------------------------------------
(* Bounds of the explored inputs *)

MaxX == 3            \* int(input()) for X0 and X ranges over 0..MaxX
MaxY == 1            \* int(input()) for Y0 ranges over 1..MaxY
MaxHalfSteps == 3    \* float(input()) for STEP ranges over 0, 1/2, ..., MaxHalfSteps/2
MaxN == 2            \* int(input()) for MAX_NUM_OF_STEPS ranges over 1..MaxN
MaxSpin == 2         \* iterations explored of a loop whose step is <= 0 (it never ends)

----------------------------------------------------------------------------
(* Fixed-point arithmetic *)

RECURSIVE Gcd(_, _)
Gcd(a, b) == IF b = 0 THEN a ELSE Gcd(b, a % b)

RECURSIVE LcmUpTo(_)
LcmUpTo(n) == IF n <= 1 THEN 1 ELSE LET l == LcmUpTo(n - 1) IN (l * n) \div Gcd(l, n)

DEFAULT_MAX_NUM_OF_STEPS == 10

XScale == LcmUpTo(DEFAULT_MAX_NUM_OF_STEPS)     \* 2520
YScale == 10 * 100

\* abs()
Abs(a) == IF a < 0 THEN 0 - a ELSE a

\* floor(a / b) for b # 0
FDiv(a, b) == IF b > 0 THEN a \div b ELSE (0 - a) \div (0 - b)

\* floor(a * h / XScale), computed without the intermediate product a * h
MulX(a, h) == (a \div XScale) * h + FDiv((a % XScale) * h, XScale)

\* floor(a * XScale / x) for x # 0, computed without the intermediate product
DivX(a, x) ==
    LET n == IF x > 0 THEN a ELSE 0 - a
        d == Abs(x)
    IN  (n \div d) * XScale + ((n % d) * XScale) \div d

\* math.pi in abscissa units (355/113)
PiX == (355 * XScale) \div 113

\* math.sin(x), x in abscissa units, result in ordinate units
Sin(x) ==
    LET r == x % (2 * PiX)
        t == IF r >= PiX THEN r - PiX ELSE r
        p == t * (PiX - t)
        v == (16 * (p \div 256) * YScale) \div ((5 * PiX * PiX - 4 * p) \div 256)
    IN  IF r >= PiX THEN 0 - v ELSE v

\* math.cos(x)
Cos(x) == Sin(x + PiX \div 2)

----------------------------------------------------------------------------
(* DifferentialEquation *)

\* get_y(x) = x * sin(x) + 1
get_y(x) == FDiv(x * Sin(x), XScale) + YScale

\* get_y_prime raises ZeroDivisionError exactly when x = 0
get_y_prime_raises(x) == x = 0

\* get_y_prime(x, y) = y / x + x * cos(x), for x # 0
get_y_prime(x, y) == DivX(y, x) + FDiv(x * Cos(x), XScale)

----------------------------------------------------------------------------
(* NumericalMethod and its three subclasses *)

Methods == 1..3

\* self.step of a method object: every constructor call passes self.STEP
self_step(m) == STEP

\* get_gte without abs(): a signed error
get_gte_signed(y_current, y_exact) == y_current - y_exact

get_gte(y_current, y_exact) == Abs(y_exact - y_current)

get_lte(y_from_exact, y_exact) == Abs(y_exact - y_from_exact)

euler_next(h, x, y) == y + MulX(get_y_prime(x, y), h)

improved_euler_next(h, x, y) ==
    y + MulX(get_y_prime(x + h \div 2, y + MulX(get_y_prime(x, y), h \div 2)), h)

runge_kutta_next(h, x, y) ==
    LET k1 == get_y_prime(x, y)
        k2 == get_y_prime(x + h \div 2, y + MulX(k1, h) \div 2)
        k3 == get_y_prime(x + h \div 2, y + MulX(k2, h) \div 2)
        k4 == get_y_prime(x + h, y + MulX(k3, h))
        k_sum == k1 + 2 * k2 + 2 * k3 + k4
    IN  y + MulX(k_sum, h \div 6)

\* the abscissas at which calculate_next of method m evaluates get_y_prime
EvalPoints(m, h, x) ==
    CASE m = 1 -> {x}
      [] m = 2 -> {x, x + h \div 2}
      [] m = 3 -> {x, x + h \div 2, x + h}

\* calculate_next(x_prev, y_prev) raises ZeroDivisionError
calculate_next_raises(m, x) ==
    \E e \in EvalPoints(m, self_step(m), x) : get_y_prime_raises(e)

\* calculate_next(x_prev, y_prev) of method m, when it does not raise
calculate_next(m, x, y) ==
    CASE m = 1 -> euler_next(self_step(m), x, y)
      [] m = 2 -> improved_euler_next(self_step(m), x, y)
      [] m = 3 -> runge_kutta_next(self_step(m), x, y)

\* the first element instead of the greatest
PyMax_first(s) == s[1]

\* max(gte_arr): the first maximal element of a non-empty list
RECURSIVE PyMax(_)
PyMax(s) ==
    IF Len(s) = 1 THEN s[1]
    ELSE LET r == PyMax(SubSeq(s, 1, Len(s) - 1))
         IN  IF s[Len(s)] > r THEN s[Len(s)] ELSE r

\* `while k <= self.differential_equation.x + step`
MethodLoopCond(kk, xx, st) == kk <= xx + st

\* `while k < self.x + step`
ExactLoopCond(kk, xx, st) == kk < xx + st

\* `k += step` of exact_solution
ExactAdvance(kk, st) == kk + st

\* a loop body that forgets `k += step`
MethodAdvance_stuck(kk, st) == kk

\* `k += step` of method_implementation
MethodAdvance(kk, st) == kk + st

\* range(max_num_of_steps, 2, -1): the sweep stops one step count early
SweepLoopCond_early(n) == n > 2

\* range(max_num_of_steps, 1, -1) still has the element i
SweepLoopCond(n) == n > 1

\* step = (x - x0) / i
SweepStep(xx, xx0, n) == FDiv(xx - xx0, n)

\* a loop with a step <= 0 does not end; MaxSpin of its iterations are explored
Explored(st, n) == st > 0 \/ n < MaxSpin

----------------------------------------------------------------------------
(* UserWorkspace *)

Init ==
    /\ X0 = PiX
    /\ Y0 = YScale
    /\ X = 4 * PiX
    /\ STEP = XScale \div 2
    /\ MAX_NUM_OF_STEPS = DEFAULT_MAX_NUM_OF_STEPS
    /\ pc = "data_correction_values"
    /\ method = 1
    /\ i = 0
    /\ step = 0
    /\ with_print = FALSE
    /\ with_gte_max = FALSE
    /\ k = 0
    /\ x_prev = 0
    /\ y_prev = 0
    /\ gte_arr = <<>>
    /\ exact_pts = <<>>
    /\ points = [m \in Methods |-> <<>>]
    /\ samples = [m \in Methods |-> <<>>]
    /\ visited = <<>>
    /\ h_used = {}

Answers == {"1", "2", "other"}

\* data_correction, first question: X0, Y0, X, STEP
DataCorrectionValues ==
    /\ pc = "data_correction_values"
    /\ \E ans \in Answers :
        \/ /\ ans = "1"
           /\ \E x0 \in 0..MaxX, y0 \in 1..MaxY, x \in 0..MaxX, hs \in 0..MaxHalfSteps :
                /\ X0' = x0 * XScale
                /\ Y0' = y0 * YScale
                /\ X' = x * XScale
                /\ STEP' = hs * (XScale \div 2)
           /\ pc' = "data_correction_steps"
        \/ /\ ans = "2"
           /\ UNCHANGED <<X0, Y0, X, STEP>>
           /\ pc' = "data_correction_steps"
        \/ /\ ans = "other"
           /\ UNCHANGED <<X0, Y0, X, STEP, pc>>
    /\ UNCHANGED <<MAX_NUM_OF_STEPS, method, i, step, with_print, with_gte_max, k,
                   x_prev, y_prev, gte_arr, exact_pts, points, samples, visited, h_used>>

\* data_correction, second question: MAX_NUM_OF_STEPS; then generate_methods
\* builds the equation and exact_solution sets k = x0
DataCorrectionSteps ==
    /\ pc = "data_correction_steps"
    /\ \E ans \in Answers :
        \/ /\ ans = "1"
           /\ \E n \in 1..MaxN : MAX_NUM_OF_STEPS' = n
           /\ pc' = "exact_solution"
           /\ k' = X0
        \/ /\ ans = "2"
           /\ UNCHANGED MAX_NUM_OF_STEPS
           /\ pc' = "exact_solution"
           /\ k' = X0
        \/ /\ ans = "other"
           /\ UNCHANGED <<MAX_NUM_OF_STEPS, pc, k>>
    /\ UNCHANGED <<X0, Y0, X, STEP, method, i, step, with_print, with_gte_max,
                   x_prev, y_prev, gte_arr, exact_pts, points, samples, visited, h_used>>

\* one test of the loop of exact_solution: an iteration, or the exit into
\* euler_method.method_implementation(self.STEP, True, False, ...)
ExactSolution ==
    /\ pc = "exact_solution"
    /\ IF ExactLoopCond(k, X, STEP)
       THEN /\ Explored(STEP, Len(exact_pts))
            /\ exact_pts' = Append(exact_pts, [x |-> k, y |-> get_y(k)])
            /\ k' = ExactAdvance(k, STEP)
            /\ UNCHANGED <<pc, method, step, with_print, with_gte_max>>
       ELSE /\ pc' = "method_implementation"
            /\ method' = 1
            /\ step' = STEP
            /\ with_print' = TRUE
            /\ with_gte_max' = FALSE
            /\ UNCHANGED <<exact_pts, k>>
    /\ UNCHANGED <<X0, Y0, X, STEP, MAX_NUM_OF_STEPS, i, x_prev, y_prev, gte_arr,
                   points, samples, visited, h_used>>

\* method_implementation up to its loop: the initial point
MethodEntry ==
    /\ pc = "method_implementation"
    /\ LET gte == get_gte(Y0, get_y(X0))
           lte == get_lte(Y0, get_y(X0))
       IN  /\ y_prev' = Y0
           /\ x_prev' = X0
           /\ k' = X0 + step
           /\ gte_arr' = IF with_gte_max THEN <<gte>> ELSE <<>>
           /\ points' = IF with_print
                        THEN [points EXCEPT ![method] =
                                 Append(@, [x |-> X0, y |-> Y0, lte |-> lte, gte |-> gte])]
                        ELSE points
           /\ visited' = <<<<X0, Y0, gte>>>>
    /\ h_used' = {}
    /\ pc' = "method_loop"
    /\ UNCHANGED <<X0, Y0, X, STEP, MAX_NUM_OF_STEPS, method, i, step, with_print,
                   with_gte_max, exact_pts, samples>>

\* one test of the loop of method_implementation: an iteration (which ends the
\* program when calculate_next raises), or the return to the caller
MethodLoop ==
    /\ pc = "method_loop"
    /\ IF MethodLoopCond(k, X, step)
       THEN /\ Explored(step, Len(visited) - 1)
            /\ IF calculate_next_raises(method, x_prev)
               THEN /\ pc' = "crashed"
                    /\ UNCHANGED <<k, x_prev, y_prev, gte_arr, points, visited, h_used>>
               ELSE LET y_next == calculate_next(method, x_prev, y_prev)
                        x_next == k
                        gte == get_gte(y_next, get_y(x_next))
                        lte == get_lte(calculate_next(method, x_prev, get_y(x_prev)),
                                       get_y(x_next))
                    IN  /\ gte_arr' = IF with_gte_max THEN Append(gte_arr, gte) ELSE gte_arr
                        /\ points' = IF with_print
                                     THEN [points EXCEPT ![method] =
                                              Append(@, [x |-> x_next, y |-> y_next,
                                                         lte |-> lte, gte |-> gte])]
                                     ELSE points
                        /\ visited' = Append(visited, <<x_next, y_next, gte>>)
                        /\ h_used' = h_used \cup {self_step(method)}
                        /\ x_prev' = x_next
                        /\ y_prev' = y_next
                        /\ k' = MethodAdvance(k, step)
                        /\ UNCHANGED pc
            /\ UNCHANGED <<i, samples>>
       ELSE /\ IF with_gte_max
               THEN \* back in gte_investigation: scatter(step, max_gte)
                    /\ samples' = [samples EXCEPT ![method] =
                                      Append(@, [step |-> step, max_gte |-> PyMax(gte_arr)])]
                    /\ i' = i - 1
               ELSE \* back in generate_methods: gte_investigation starts
                    /\ i' = MAX_NUM_OF_STEPS
                    /\ UNCHANGED samples
            /\ pc' = "gte_investigation"
            /\ UNCHANGED <<k, x_prev, y_prev, gte_arr, points, visited, h_used>>
    /\ UNCHANGED <<X0, Y0, X, STEP, MAX_NUM_OF_STEPS, method, step, with_print,
                   with_gte_max, exact_pts>>

\* one test of the loop of gte_investigation: the call of method_implementation
\* for the next i, or the return to generate_methods, which goes on with the
\* next method or returns to launch
GteInvestigation ==
    /\ pc = "gte_investigation"
    /\ IF SweepLoopCond(i)
       THEN /\ step' = SweepStep(X, X0, i)
            /\ with_print' = FALSE
            /\ with_gte_max' = TRUE
            /\ pc' = "method_implementation"
            /\ UNCHANGED method
       ELSE IF method < 3
            THEN /\ method' = method + 1
                 /\ step' = STEP
                 /\ with_print' = TRUE
                 /\ with_gte_max' = FALSE
                 /\ pc' = "method_implementation"
            ELSE /\ pc' = "generate_graphs"
                 /\ UNCHANGED <<method, step, with_print, with_gte_max>>
    /\ UNCHANGED <<X0, Y0, X, STEP, MAX_NUM_OF_STEPS, i, k, x_prev, y_prev, gte_arr,
                   exact_pts, points, samples, visited, h_used>>

\* generate_graphs: axis labels, legends, plt.show(); the program ends
GenerateGraphs ==
    /\ pc = "generate_graphs"
    /\ pc' = "done"
    /\ UNCHANGED <<X0, Y0, X, STEP, MAX_NUM_OF_STEPS, method, i, step, with_print,
                   with_gte_max, k, x_prev, y_prev, gte_arr, exact_pts, points,
                   samples, visited, h_used>>

Next ==
    \/ DataCorrectionValues
    \/ DataCorrectionSteps
    \/ ExactSolution
    \/ MethodEntry
    \/ MethodLoop
    \/ GteInvestigation
    \/ GenerateGraphs

Spec == Init /\ [][Next]_vars

\* the interpreter runs the program: a step that can be taken is taken
FairSpec == Spec /\ WF_vars(Next)

----------------------------------------------------------------------------
(* What one method object produces when nothing else runs before it *)

\* the rows method_implementation(st, True, False, ...) emits in its loop from
\* (kk, xp, yp) on, up to its return or to the ZeroDivisionError
RECURSIVE LoopPoints(_, _, _, _, _)
LoopPoints(m, st, kk, xp, yp) ==
    IF ~MethodLoopCond(kk, X, st) \/ calculate_next_raises(m, xp) THEN <<>>
    ELSE LET y_next == calculate_next(m, xp, yp)
             gte == get_gte(y_next, get_y(kk))
             lte == get_lte(calculate_next(m, xp, get_y(xp)), get_y(kk))
         IN  <<[x |-> kk, y |-> y_next, lte |-> lte, gte |-> gte]>>
                 \o LoopPoints(m, st, MethodAdvance(kk, st), kk, y_next)

\* the rows of method m's trajectory run with the configured step
StandalonePoints(m) ==
    <<[x |-> X0, y |-> Y0, lte |-> get_lte(Y0, get_y(X0)), gte |-> get_gte(Y0, get_y(X0))]>>
        \o LoopPoints(m, STEP, X0 + STEP, X0, Y0)

\* whether the loop of method_implementation raises from (kk, xp) on
RECURSIVE LoopRaises(_, _, _, _)
LoopRaises(m, st, kk, xp) ==
    /\ MethodLoopCond(kk, X, st)
    /\ \/ calculate_next_raises(m, xp)
       \/ LoopRaises(m, st, MethodAdvance(kk, st), kk)

\* the samples gte_investigation of method m scatters from step count n on
RECURSIVE SweepSamples(_, _)
SweepSamples(m, n) ==
    IF ~SweepLoopCond(n) THEN <<>>
    ELSE LET st == SweepStep(X, X0, n)
             gtes == [j \in 1..(1 + Len(LoopPoints(m, st, X0 + st, X0, Y0))) |->
                         IF j = 1 THEN get_gte(Y0, get_y(X0))
                         ELSE LoopPoints(m, st, X0 + st, X0, Y0)[j - 1].gte]
         IN  IF LoopRaises(m, st, X0 + st, X0) THEN <<>>
             ELSE <<[step |-> st, max_gte |-> PyMax(gtes)]>> \o SweepSamples(m, n - 1)

\* the samples of method m
StandaloneSamples(m) ==
    IF LoopRaises(m, STEP, X0 + STEP, X0) THEN <<>>
    ELSE SweepSamples(m, MAX_NUM_OF_STEPS)

----------------------------------------------------------------------------
(* Vocabulary of the properties *)

\* data_correction has returned
Configured == pc \notin {"data_correction_values", "data_correction_steps"}

\* the configuration the specification calls valid
ValidInterval == X0 < X /\ STEP > 0
Valid == ValidInterval /\ MAX_NUM_OF_STEPS >= 2

\* |exact(x0) - y0|
SeedError == IF get_y(X0) >= Y0 THEN get_y(X0) - Y0 ELSE Y0 - get_y(X0)

\* the trajectory run of method m (its call with with_print) has returned
MainRunDone(m) ==
    \/ method > m
    \/ pc \in {"generate_graphs", "done"}
    \/ method = m /\ (with_gte_max \/ pc = "gte_investigation")

\* gte_investigation of method m has returned
SweepDone(m) ==
    \/ method > m
    \/ pc \in {"generate_graphs", "done"}
    \/ method = m /\ pc = "gte_investigation" /\ i <= 1

\* a run in max-GTE mode has just returned to gte_investigation
SweepRunReturned == pc = "gte_investigation" /\ with_gte_max

Xs(s) == [j \in 1..Len(s) |-> s[j].x]

\* st is d / n on the abscissa grid
IsQuotient(st, d, n) == n * st <= d /\ d < n * (st + 1)

----------------------------------------------------------------------------
(* C1.  In every run of the sweep, the step the update rule uses in each    *)
(* integrator call equals the step by which x advances between points.     *)
C1_IntegratorUsesRunStep ==
    (Valid /\ pc = "method_loop" /\ with_gte_max) => \A h \in h_used : h = step

(* C2.  With x0 < xEnd and step > 0, a trajectory run produces exactly      *)
(* floor((xEnd - x0)/step) + 1 points.                                      *)
C2_PointCount ==
    \A m \in Methods :
        (ValidInterval /\ MainRunDone(m)) =>
            Len(points[m]) = FDiv(X - X0, STEP) + 1

(* C3.  For N >= 2 the sweep of a method emits exactly N - 1 samples, for   *)
(* n = N, N-1, ..., 2 in that order; the sample for n has step             *)
(* (xEnd - x0)/n and a max-GTE that is a GTE of the run made for that n.    *)
C3_SweepSamples ==
    /\ \A m \in Methods :
        (MAX_NUM_OF_STEPS >= 2 /\ SweepDone(m)) =>
            /\ Len(samples[m]) = MAX_NUM_OF_STEPS - 1
            /\ \A j \in 1..Len(samples[m]) :
                  IsQuotient(samples[m][j].step, X - X0, MAX_NUM_OF_STEPS + 1 - j)
            /\ \A j \in 2..Len(samples[m]) :
                  X0 < X => samples[m][j - 1].step < samples[m][j].step
    /\ (MAX_NUM_OF_STEPS >= 2 /\ SweepRunReturned) =>
            LET s == samples[method]
            IN  /\ Len(s) = MAX_NUM_OF_STEPS - i
                /\ s[Len(s)].step = step
                /\ IsQuotient(step, X - X0, i + 1)
                /\ \E j \in 1..Len(visited) : s[Len(s)].max_gte = visited[j][3]

C3_Witness ==
    /\ pc = "done"
    /\ MAX_NUM_OF_STEPS = DEFAULT_MAX_NUM_OF_STEPS
    /\ X0 < X
    /\ \A m \in Methods : Len(samples[m]) = 9 /\ samples[m][1].step < samples[m][9].step

(* C4.  The first point of every trajectory is (x0, y0) with                *)
(* gte = lte = |exact(x0) - y0|, also when y0 differs from exact(x0); in    *)
(* max-GTE mode that gte is among the values the maximum is taken over.     *)
C4_SeedPoint ==
    /\ \A m \in Methods :
          Len(points[m]) >= 1 =>
              points[m][1] = [x |-> X0, y |-> Y0, lte |-> SeedError, gte |-> SeedError]
    /\ (with_gte_max /\ pc \in {"method_loop", "gte_investigation", "crashed"}) =>
          /\ Len(gte_arr) >= 1
          /\ gte_arr[1] = SeedError
    /\ \A m \in Methods : \A j \in 1..Len(samples[m]) : samples[m][j].max_gte >= SeedError

C4_Witness ==
    /\ Y0 # get_y(X0)
    /\ Len(points[3]) >= 2
    /\ Len(samples[3]) >= 1
    /\ pc = "method_loop"
    /\ with_gte_max
    /\ Len(gte_arr) >= 2

(* C5.  An invalid configuration (xEnd <= x0, step <= 0 or                  *)
(* maxStepCount < 2) produces no trajectory point and no sample.            *)
C5_InvalidProducesNothing ==
    (Configured /\ ~Valid) =>
        /\ exact_pts = <<>>
        /\ \A m \in Methods : points[m] = <<>> /\ samples[m] = <<>>

(* C6.  A derivative evaluation at x = 0 ends only the run of the method    *)
(* that made it: every other method still produces the points and the       *)
(* samples it produces when run alone.                                      *)
C6_ErrorIsolated ==
    (pc = "crashed" /\ Valid) =>
        \A m \in Methods \ {method} :
            /\ points[m] = StandalonePoints(m)
            /\ samples[m] = StandaloneSamples(m)

(* C7.  With x0 < xEnd and step >= xEnd - x0 a trajectory run produces      *)
(* exactly one point, the initial one.                                      *)
C7_SinglePoint ==
    \A m \in Methods :
        (X0 < X /\ STEP >= X - X0 /\ MainRunDone(m)) => Len(points[m]) = 1

C9_ModesAgree ==
    SweepRunReturned =>
        LET s == samples[method]
            r == s[Len(s)].max_gte
        IN  /\ step = STEP =>
                  visited = [j \in 1..Len(points[method]) |->
                                <<points[method][j].x, points[method][j].y,
                                  points[method][j].gte>>]
            /\ \A j \in 1..Len(visited) : r >= visited[j][3]
            /\ \E j \in 1..Len(visited) : r = visited[j][3]

C9_Witness ==
    /\ SweepRunReturned
    /\ step = STEP
    /\ Len(visited) >= 3
    /\ visited[1][3] # visited[2][3]

(* C10.  With x0 < xEnd and step > 0 the exact-solution pass and every      *)
(* method's trajectory run visit the same sequence of x values.             *)
C10_SameAbscissas ==
    \A m \in Methods :
        (ValidInterval /\ MainRunDone(m)) => Xs(points[m]) = Xs(exact_pts)

====
